---- MODULE Spec2Model ----
(***************************************************************************)
(* Session layer of the goscaleio client (src/api.go): the package-wide    *)
(* Accept/Content-Type header pair, the per-Client protocol version and    *)
(* session token, Authenticate, and the dispatchers getJSONWithRetry,      *)
(* getStringWithRetry and authorizedJSONWithRetry, run by one or by two    *)
(* concurrent callers; the Sdc wrappers GetSdcById and ChangeSdcName; and   *)
(* the SDC device channel with its ioctl op-codes (src/unnamed/part_003).  *)
(* Strings are sequences of one-character strings.                         *)
(***************************************************************************)
EXTENDS Integers, Sequences, FiniteSets, TLC

VARIABLES
    accHeader,  \* package variable accHeader (api.go:38)
    conHeader,  \* package variable conHeader (api.go:39)
    mu,         \* package mutex mu: "free" or the caller holding it (api.go:37)
    exists,     \* exists[c]: NewClientWithArgs has returned Client c
    version,    \* version[c]: c.configConnect.Version
    token,      \* token[c]: the token held by c.api (SetToken / GetToken)
    th,         \* th[t]: the call caller t is executing, its locals and position
    wire,       \* wire[t]: the last resource request caller t put on the wire
    active,     \* the callers that run (fixed by Init)
    slots,      \* the clients that can be constructed (fixed by Init)
    dev,        \* the SDC device channel: flags, open handles, the call in progress
    sdc,        \* the GetSdcById or ChangeSdcName call in progress and its result
    ioc         \* the last op-code built by _IO or _IOC, with its arguments

vars == <<accHeader, conHeader, mu, exists, version, token, th, wire, active, slots, dev, sdc, ioc>>

----------------------------------------------------------------------------
(* Bounds and input alphabets *)

Callers == {"t1", "t2"}
Clients == {"c1", "c2"}

Q == "\""
SP == " "
White == {SP}
Digits == {"0", "1", "3", "6"}

\* Longest token the login endpoint issues (characters between the quotes).
MaxTokenLen == 2
TokenChars == {"a"}

RECURSIVE StringsUpTo(_, _)
StringsUpTo(chars, n) ==
    IF n = 0 THEN {<<>>}
    ELSE LET shorter == StringsUpTo(chars, n - 1)
         IN shorter \cup {Append(s, ch) : s \in shorter, ch \in chars}

Quoted(s) == <<Q>> \o s \o <<Q>>

\* Bodies of a 2xx answer of GET api/login: a bare quoted token string.
LoginBodies == {Quoted(s) : s \in StringsUpTo(TokenChars, MaxTokenLen) \ {<<>>}}

\* Bodies of a 2xx answer of GET /api/version.
VersionBodies == {Quoted(<<"3", ".", "6">>), Quoted(<<"3", ".", "1", "0">>)}

\* Bodies of a 2xx answer of a resource request.
ResourceBodies == {Quoted(<<"a">>), <<SP, Q, "b", Q, SP>>}

\* The version argument of NewClientWithArgs and of a caller's ConfigConnect.
ArgVersions == {<<>>, <<"3", ".", "5">>}

\* One HTTP exchange as the transport reports it: a transport failure (no
\* response), or a response with a status class (2xx, 401, another non-2xx)
\* and a body.  readable = FALSE is a 2xx body whose read fails, or a non-2xx
\* body that is not a well-formed error document.
Exchange(bodies) ==
    {[status |-> "transport", body |-> <<>>, readable |-> TRUE],
     [status |-> "401", body |-> <<>>, readable |-> TRUE],
     [status |-> "401", body |-> <<>>, readable |-> FALSE],
     [status |-> "other", body |-> <<>>, readable |-> TRUE],
     [status |-> "other", body |-> <<>>, readable |-> FALSE],
     [status |-> "2xx", body |-> <<>>, readable |-> FALSE]}
    \cup {[status |-> "2xx", body |-> b, readable |-> TRUE] : b \in bodies}

NoExchange == [status |-> "none", body |-> <<>>, readable |-> TRUE]

----------------------------------------------------------------------------
(* Pure functions of api.go *)

RECURSIVE TrimLeft(_, _)
TrimLeft(s, cutset) ==
    IF s = <<>> \/ Head(s) \notin cutset THEN s ELSE TrimLeft(Tail(s), cutset)

RECURSIVE TrimRight(_, _)
TrimRight(s, cutset) ==
    IF s = <<>> \/ s[Len(s)] \notin cutset THEN s
    ELSE TrimRight(SubSeq(s, 1, Len(s) - 1), cutset)

TrimSpace(s) == TrimRight(TrimLeft(s, White), White)

\* extractString on a body that was read: surrounding whitespace, then leading
\* quotes, then trailing quotes are removed.
extractString(bs) == TrimRight(TrimLeft(TrimSpace(bs), {Q}), {Q})

RECURSIVE DigitRun(_)
\* number of leading digits of s
DigitRun(s) == IF s = <<>> \/ Head(s) \notin Digits THEN 0 ELSE 1 + DigitRun(Tail(s))

\* versionRX ^(\d+?\.\d+?).*$ : the first group is the major digits (the lazy
\* \d+? must grow until the dot follows), the dot, and ONE minor digit (the
\* lazy \d+? stops at its first digit, .* takes the rest).  No match returns
\* the string itself.
versionRX(v) ==
    LET major == DigitRun(v)
    IN IF major > 0 /\ Len(v) >= major + 2 /\ v[major + 1] = "."
          /\ v[major + 2] \in Digits
       THEN SubSeq(v, 1, major + 2)
       ELSE v

HeaderValContentTypeJSON == <<"application/json">>

----------------------------------------------------------------------------
(* The SDC device channel (DrvCfgQueryGUID, DrvCfgQuerySystems,
   DrvCfgQueryRescan): constants and buffers *)

mockGUID == <<"9", "E", "5", "6", "6", "7", "2", "F", "-", "2", "F", "4", "B", "-", "4", "A", "4", "2", "-", "B", "F", "F", "4", "-", "8", "8", "B", "6", "8", "4", "6", "F", "B", "F", "D", "A">>

mockSystem == <<"0", "0", "0", "0", "0", "0", "0", "0", "0", "0", "0", "1">>

\* The return code a successful query carries.
RcSuccess == 65

\* len(ioctlQueryMDMs.mdms)
MaxMdms == 20

NoBuffer == [errno |-> FALSE, rc |-> <<>>, uuid |-> <<>>, numMdms |-> 0, seed |-> 0,
             scan |-> 0]

\* No call in progress, no handle open, SCINIMockMode false, no device file.
DevIdle ==
    [mock |-> FALSE, present |-> FALSE, open |-> 0, pc |-> "idle", op |-> "none",
     opens |-> 0, closes |-> 0, buf |-> NoBuffer,
     err |-> "none", isNil |-> FALSE, val |-> <<>>,
            clusters |-> <<>>]

----------------------------------------------------------------------------
(* Callers *)

NoSnap == [token |-> <<>>, version |-> <<>>, acc |-> <<>>, con |-> <<>>]

Idle ==
    [pc |-> "idle", op |-> "none", c |-> "c1", arg |-> <<>>, ver |-> <<>>,
     hAcc |-> <<>>, hCon |-> <<>>, r1 |-> NoExchange, r2 |-> NoExchange,
     login |-> NoExchange, vresp |-> NoExchange,
     authErr |-> "none", nSend |-> 0, nAuth |-> 0, had |-> FALSE,
     err |-> "none", val |-> <<>>, snap |-> NoSnap]

\* No op-code has been built.
NoIoc == [fn |-> "none", dir |-> 0, t |-> 0, nr |-> 0, size |-> 0, code |-> {}]

\* No GetSdcById or ChangeSdcName call is in progress.
NoSdc == [fn |-> "none", t |-> "t1", pc |-> "none", wrapper |-> FALSE, err |-> "none"]

NoWire == [n |-> 0, acc |-> <<>>, con |-> <<>>, token |-> <<>>, racing |-> FALSE]

Snap(c) ==
    [token |-> token[c], version |-> version[c], acc |-> accHeader, con |-> conHeader]

Init ==
    /\ accHeader = <<>>
    /\ conHeader = <<>>
    /\ mu = "free"
    /\ exists = [c \in Clients |-> FALSE]
    /\ version = [c \in Clients |-> <<>>]
    /\ token = [c \in Clients |-> <<>>]
    /\ th = [t \in Callers |-> Idle]
    /\ wire = [t \in Callers |-> NoWire]
    /\ active = {"t1"}
    /\ slots = Clients
    /\ dev = DevIdle
    /\ sdc = NoSdc
    /\ ioc = NoIoc

----------------------------------------------------------------------------
(* The transport client c.api (package api) as the session layer uses it *)

\* ParseJSONError: the structured error of a non-2xx response, or a generic
\* parse failure when its body is not well formed.
ParseJSONError(r) ==
    IF ~r.readable THEN "parseErr"
    ELSE IF r.status = "401" THEN "api401" ELSE "apiOther"

\* err.(*types.Error) succeeds for the structured errors only.
IsTypesError(e) == e \in {"api401", "apiOther"}

\* DoWithHeaders: nil and the decoded body on 2xx, the parsed error on a
\* non-2xx status, the transport's or the decoder's error otherwise.
DoWithHeaders(r) ==
    CASE r.status = "transport" -> [err |-> "transport", val |-> <<>>]
      [] r.status = "2xx" /\ r.readable -> [err |-> "nil", val |-> r.body]
      [] r.status = "2xx" /\ ~r.readable -> [err |-> "decode", val |-> <<>>]
      [] OTHER -> [err |-> ParseJSONError(r), val |-> <<>>]

\* DoAndGetResponseBody: an error when the transport fails, else the response.
DoAndGetResponseBody(r) == IF r.status = "transport" THEN "transport" ELSE "nil"

\* Another caller's re-authentication of the same client stands between its
\* SetToken("") (line 134) and its SetToken(token) (line 161), and the token
\* it cleared was not empty.
ClearedByOther(t) ==
    \E u \in active \ {t} :
        /\ th[u].c = th[t].c
        /\ th[u].op \in {"json", "string"}
        /\ th[u].pc = "login"
        /\ th[u].had

\* The request as it leaves: the headers the dispatcher passed and the token
\* c.api holds at that moment.
Request(t, n) ==
    [n |-> n, acc |-> th[t].hAcc, con |-> th[t].hCon, token |-> token[th[t].c],
     racing |-> ClearedByOther(t)]

----------------------------------------------------------------------------
(* Decisions of api.go *)

\* Variants of the test of lines 194-196: without the status comparison, and
\* without the type assertion.
JSONNeedsAuth_AnyStatus(err) == IsTypesError(err)

JSONNeedsAuth_AnyError(err) == err # "nil"

\* getJSONWithRetry, lines 194-196: re-authenticate on a structured 401 only.
JSONNeedsAuth(err) == IsTypesError(err) /\ err = "api401"

\* A variant of checkResponse that asks for a retry on every non-2xx status.
checkResponse_RetryAnyStatus(r) ==
    CASE r.status \in {"401", "other"} ->
            [s |-> <<>>, retry |-> TRUE, err |-> ParseJSONError(r)]
      [] r.status = "2xx" /\ ~r.readable ->
            [s |-> <<>>, retry |-> FALSE, err |-> "bodyRead"]
      [] OTHER -> [s |-> extractString(r.body), retry |-> FALSE, err |-> "nil"]

\* checkResponse of getStringWithRetry, lines 262-281.
checkResponse(r) ==
    CASE r.status = "401" -> [s |-> <<>>, retry |-> TRUE, err |-> ParseJSONError(r)]
      [] r.status = "other" -> [s |-> <<>>, retry |-> FALSE, err |-> ParseJSONError(r)]
      [] r.status = "2xx" /\ ~r.readable ->
            [s |-> <<>>, retry |-> FALSE, err |-> "bodyRead"]
      [] OTHER -> [s |-> extractString(r.body), retry |-> FALSE, err |-> "nil"]

\* A variant of lines 301-307 that hands back the string of the first
\* checkResponse.
StringRetryResult_FirstString(chk) == [err |-> "nil", val |-> <<>>]

\* getStringWithRetry, lines 301-307: after the re-sent request the error of
\* checkResponse is assigned and never looked at; s and nil are returned.
StringRetryResult(chk) == [err |-> "nil", val |-> chk.s]

\* Authenticate, lines 140-159: what the login exchange makes Authenticate
\* return at once ("continue": the token was extracted and is stored).
AuthLoginReturn(r) ==
    CASE r.status = "transport" -> "transport"
      [] r.status \in {"401", "other"} -> ParseJSONError(r)
      [] r.status = "2xx" /\ ~r.readable -> "nil"
      [] OTHER -> "continue"

\* getVersion, lines 75-102.
getVersion(r) ==
    CASE r.status = "transport" -> [version |-> <<>>, err |-> "transport"]
      [] r.status \in {"401", "other"} -> [version |-> <<>>, err |-> ParseJSONError(r)]
      [] r.status = "2xx" /\ ~r.readable -> [version |-> <<>>, err |-> "bodyRead"]
      [] OTHER -> [version |-> versionRX(extractString(r.body)), err |-> "nil"]

\* A variant of lines 131-132 that keeps the Version of the argument.
AuthConfigVersion_KeepArgument(current, argument) == argument

\* Authenticate, line 131: the argument's Version is overwritten with the
\* client's before the argument becomes the client's configuration.
AuthConfigVersion(current, argument) == current

\* Lines 199-201 and 293-295: the dispatcher's answer to Authenticate's error.
AfterAuthenticate(authErr) == IF authErr # "nil" THEN "authErr" ELSE "resend"

----------------------------------------------------------------------------
(* Actions.  One action is one stretch of code between two accesses to state
   that another caller can see. *)

\* The history of a call (the exchanges it saw, the state it started from) is
\* recorded when one caller runs alone; it changes nothing the code reads.
Tracing == Cardinality(active) = 1

Set(t, fields, hist) ==
    LET new == IF Tracing THEN fields @@ hist ELSE fields
    IN [th EXCEPT ![t] = [f \in DOMAIN th[t] |->
                             IF f \in DOMAIN new THEN new[f] ELSE th[t][f]]]

None == [x \in {} |-> x]

Start(t, fields, c) == [th EXCEPT ![t] = [f \in DOMAIN Idle |->
                          IF f \in DOMAIN fields THEN fields[f]
                          ELSE IF f = "c" THEN c
                          ELSE IF f = "snap" /\ Tracing THEN Snap(c)
                          ELSE Idle[f]]]

Finish(t, err, val) == Set(t, [pc |-> "done", err |-> err], [val |-> val])

\* NewClientWithArgs, lines 330-376 up to the call of updateHeaders: a new
\* Client with the given version and a transport client that holds no token.
NewClientWithArgs(t) ==
    /\ th[t].pc = "idle"
    /\ \E c \in Clients, v \in ArgVersions :
          /\ c \in slots /\ ~exists[c]
          /\ \A u \in Callers : th[u].op = "new" => th[u].c # c
          /\ version' = [version EXCEPT ![c] = v]
          /\ token' = [token EXCEPT ![c] = <<>>]
          /\ th' = Start(t, [pc |-> "uh1", op |-> "new", ver |-> v], c)
    /\ UNCHANGED <<accHeader, conHeader, mu, exists, wire, active, slots, dev, sdc, ioc>>

\* NewClientWithArgs, line 378: the client is returned to its creator.
NewClientReturn(t) ==
    /\ th[t].pc = "new_ret"
    /\ exists' = [exists EXCEPT ![th[t].c] = TRUE]
    /\ th' = Finish(t, "nil", <<>>)
    /\ UNCHANGED <<accHeader, conHeader, mu, version, token, wire, active, slots, dev, sdc, ioc>>

\* updateHeaders, lines 119-121: take mu, accHeader = "application/json".
UpdateHeadersLock(t) ==
    /\ th[t].pc = "uh1"
    /\ mu = "free"
    /\ mu' = t
    /\ accHeader' = HeaderValContentTypeJSON
    /\ th' = Set(t, [pc |-> "uh2"], None)
    /\ UNCHANGED <<conHeader, exists, version, token, wire, active, slots, dev, sdc, ioc>>

\* A variant of lines 122-124 that appends the version without ";version=".
UpdateHeadersSuffix_NoSeparator(t) ==
    /\ th[t].pc = "uh2"
    /\ accHeader' = accHeader \o th[t].ver
    /\ th' = Set(t, [pc |-> "uh3"], None)
    /\ UNCHANGED <<conHeader, mu, exists, version, token, wire, active, slots, dev, sdc, ioc>>

\* updateHeaders, lines 122-124: the version suffix is appended.
UpdateHeadersSuffix(t) ==
    /\ th[t].pc = "uh2"
    /\ accHeader' = IF th[t].ver # <<>>
                    THEN accHeader \o <<";version=">> \o th[t].ver
                    ELSE accHeader
    /\ th' = Set(t, [pc |-> "uh3"], None)
    /\ UNCHANGED <<conHeader, mu, exists, version, token, wire, active, slots, dev, sdc, ioc>>

\* updateHeaders, line 125 and the deferred Unlock; control returns to
\* NewClientWithArgs (line 378) or through updateVersion to Authenticate
\* (line 170).
UpdateHeadersCopy(t) ==
    /\ th[t].pc = "uh3"
    /\ conHeader' = accHeader
    /\ mu' = "free"
    /\ th' = IF th[t].op = "new" THEN Set(t, [pc |-> "new_ret", ver |-> <<>>], None)
             ELSE Set(t, [pc |-> "auth_ret", ver |-> <<>>, authErr |-> "nil"], None)
    /\ UNCHANGED <<accHeader, exists, version, token, wire, active, slots, dev, sdc, ioc>>

\* A caller enters getJSONWithRetry, getStringWithRetry or
\* authorizedJSONWithRetry on a client it was given.
CallDispatcher(t) ==
    /\ th[t].pc = "idle"
    /\ \E c \in Clients, op \in {"json", "string", "authorized"} :
          /\ exists[c]
          /\ th' = Start(t, [pc |-> "rdAcc", op |-> op], c)
    /\ UNCHANGED <<accHeader, conHeader, mu, exists, version, token, wire, active, slots, dev, sdc, ioc>>

\* Lines 183, 215, 258: headers[Accept] = accHeader, read without mu.
ReadAccHeader(t) ==
    /\ th[t].pc = "rdAcc"
    /\ th' = Set(t, [pc |-> "rdCon", hAcc |-> accHeader], None)
    /\ UNCHANGED <<accHeader, conHeader, mu, exists, version, token, wire, active, slots, dev, sdc, ioc>>

\* Lines 184, 216, 259: headers[Content-Type] = conHeader, read without mu.
ReadConHeader(t) ==
    /\ th[t].pc = "rdCon"
    /\ th' = Set(t, [pc |-> "send1", hCon |-> conHeader], None)
    /\ UNCHANGED <<accHeader, conHeader, mu, exists, version, token, wire, active, slots, dev, sdc, ioc>>

\* getJSONWithRetry, lines 187-208: the first DoWithHeaders and what follows it.
JSONFirstSend(t) ==
    /\ th[t].pc = "send1" /\ th[t].op = "json"
    /\ \E r \in Exchange(ResourceBodies) :
          LET res == DoWithHeaders(r)
          IN th' = IF res.err = "nil"
                   THEN Set(t, [pc |-> "done", err |-> "nil", nSend |-> 1],
                            [r1 |-> r, val |-> res.val])
                   ELSE IF JSONNeedsAuth(res.err)
                   THEN Set(t, [pc |-> "auth", nSend |-> 1, nAuth |-> 1,
                                arg |-> version[th[t].c]], [r1 |-> r])
                   ELSE Set(t, [pc |-> "done", err |-> res.err, nSend |-> 1],
                            [r1 |-> r])
    /\ wire' = [wire EXCEPT ![t] = Request(t, 1)]
    /\ UNCHANGED <<accHeader, conHeader, mu, exists, version, token, active, slots, dev, sdc, ioc>>

\* getStringWithRetry, lines 283-305: the first DoAndGetResponseBody,
\* checkResponse, and what follows them.
StringFirstSend(t) ==
    /\ th[t].pc = "send1" /\ th[t].op = "string"
    /\ \E r \in Exchange(ResourceBodies) :
          LET chk == checkResponse(r)
          IN th' = IF DoAndGetResponseBody(r) # "nil"
                   THEN Set(t, [pc |-> "done", err |-> DoAndGetResponseBody(r),
                                nSend |-> 1], [r1 |-> r])
                   ELSE IF chk.err # "nil" /\ chk.retry
                   THEN Set(t, [pc |-> "auth", nSend |-> 1, nAuth |-> 1,
                                arg |-> version[th[t].c]], [r1 |-> r])
                   ELSE IF chk.err # "nil"
                   THEN Set(t, [pc |-> "done", err |-> chk.err, nSend |-> 1],
                            [r1 |-> r])
                   ELSE Set(t, [pc |-> "done", err |-> "nil", nSend |-> 1],
                            [r1 |-> r, val |-> chk.s])
    /\ wire' = [wire EXCEPT ![t] = Request(t, 1)]
    /\ UNCHANGED <<accHeader, conHeader, mu, exists, version, token, active, slots, dev, sdc, ioc>>

\* authorizedJSONWithRetry, lines 226-230: one DoAndGetResponseBodyAuthorized,
\* whose response and error are returned as they are.
AuthorizedSend(t) ==
    /\ th[t].pc = "send1" /\ th[t].op = "authorized"
    /\ \E r \in Exchange(ResourceBodies) :
          th' = Set(t, [pc |-> "done", err |-> DoAndGetResponseBody(r), nSend |-> 1],
                    [r1 |-> r, val |-> r.body])
    /\ wire' = [wire EXCEPT ![t] = Request(t, 1)]
    /\ UNCHANGED <<accHeader, conHeader, mu, exists, version, token, active, slots, dev, sdc, ioc>>

\* A caller calls Authenticate itself, with a ConfigConnect of its own.
CallAuthenticate(t) ==
    /\ th[t].pc = "idle"
    /\ \E c \in Clients, v \in ArgVersions :
          /\ exists[c]
          /\ th' = Start(t, [pc |-> "auth", op |-> "authenticate", arg |-> v,
                              nAuth |-> 1], c)
    /\ UNCHANGED <<accHeader, conHeader, mu, exists, version, token, wire, active, slots, dev, sdc, ioc>>

\* Authenticate, lines 131-134: the configuration is replaced, the token cleared.
AuthenticateClear(t) ==
    /\ th[t].pc = "auth"
    /\ version' = [version EXCEPT ![th[t].c] = AuthConfigVersion(@, th[t].arg)]
    /\ token' = [token EXCEPT ![th[t].c] = <<>>]
    /\ th' = Set(t, [pc |-> "login", arg |-> <<>>, had |-> token[th[t].c] # <<>>], None)
    /\ wire' = [wire EXCEPT ![t] = NoWire]
    /\ UNCHANGED <<accHeader, conHeader, mu, exists, active, slots, dev, sdc, ioc>>

\* Authenticate, lines 140-161: the login exchange; the extracted token is
\* stored.
AuthenticateLogin(t) ==
    /\ th[t].pc = "login"
    /\ \E r \in Exchange(LoginBodies) :
          IF AuthLoginReturn(r) = "continue"
          THEN /\ token' = [token EXCEPT ![th[t].c] = extractString(r.body)]
               /\ th' = Set(t, [pc |-> "auth_ver", had |-> FALSE], [login |-> r])
          ELSE /\ token' = token
               /\ th' = Set(t, [pc |-> "auth_ret", had |-> FALSE,
                                authErr |-> AuthLoginReturn(r)], [login |-> r])
    /\ UNCHANGED <<accHeader, conHeader, mu, exists, version, wire, active, slots, dev, sdc, ioc>>

\* Authenticate, lines 163-170: the version is asked for only when unset.
AuthenticateVersionCheck(t) ==
    /\ th[t].pc = "auth_ver"
    /\ th' = IF version[th[t].c] = <<>> THEN Set(t, [pc |-> "getver"], None)
             ELSE Set(t, [pc |-> "auth_ret", authErr |-> "nil"], None)
    /\ UNCHANGED <<accHeader, conHeader, mu, exists, version, token, wire, active, slots, dev, sdc, ioc>>

\* updateVersion, lines 107-113, and lines 165-167 of Authenticate: getVersion;
\* on success the version is stored and updateHeaders is entered.
UpdateVersion(t) ==
    /\ th[t].pc = "getver"
    /\ \E r \in Exchange(VersionBodies) :
          LET got == getVersion(r)
          IN IF got.err # "nil"
             THEN /\ version' = version
                  /\ th' = Set(t, [pc |-> "auth_ret", authErr |-> "versionErr"],
                                [vresp |-> r])
             ELSE /\ version' = [version EXCEPT ![th[t].c] = got.version]
                  /\ th' = Set(t, [pc |-> "uh1", ver |-> got.version], [vresp |-> r])
    /\ UNCHANGED <<accHeader, conHeader, mu, exists, token, wire, active, slots, dev, sdc, ioc>>

\* Authenticate has returned: to its caller, or to the dispatcher at lines
\* 199-203 and 293-297.
AuthenticateReturn(t) ==
    /\ th[t].pc = "auth_ret"
    /\ th' = IF th[t].op = "authenticate" THEN Finish(t, th[t].authErr, <<>>)
             ELSE IF AfterAuthenticate(th[t].authErr) = "authErr"
             THEN Finish(t, "authErr", <<>>)
             ELSE Set(t, [pc |-> "send2"], None)
    /\ UNCHANGED <<accHeader, conHeader, mu, exists, version, token, wire, active, slots, dev, sdc, ioc>>

\* getJSONWithRetry, lines 202-203: the request is sent again with the headers
\* built before the first send; DoWithHeaders' result is the call's.
JSONRetrySend(t) ==
    /\ th[t].pc = "send2" /\ th[t].op = "json"
    /\ \E r \in Exchange(ResourceBodies) :
          th' = Set(t, [pc |-> "done", err |-> DoWithHeaders(r).err,
                        nSend |-> th[t].nSend + 1],
                    [r2 |-> r, val |-> DoWithHeaders(r).val])
    /\ wire' = [wire EXCEPT ![t] = Request(t, 2)]
    /\ UNCHANGED <<accHeader, conHeader, mu, exists, version, token, active, slots, dev, sdc, ioc>>

\* getStringWithRetry, lines 296-307.
StringRetrySend(t) ==
    /\ th[t].pc = "send2" /\ th[t].op = "string"
    /\ \E r \in Exchange(ResourceBodies) :
          LET res == StringRetryResult(checkResponse(r))
          IN th' = IF DoAndGetResponseBody(r) # "nil"
                   THEN Set(t, [pc |-> "done", err |-> DoAndGetResponseBody(r),
                                nSend |-> th[t].nSend + 1], [r2 |-> r])
                   ELSE Set(t, [pc |-> "done", err |-> res.err,
                                nSend |-> th[t].nSend + 1],
                            [r2 |-> r, val |-> res.val])
    /\ wire' = [wire EXCEPT ![t] = Request(t, 2)]
    /\ UNCHANGED <<accHeader, conHeader, mu, exists, version, token, active, slots, dev, sdc, ioc>>

\* The call has returned; its caller goes on.
Return(t) ==
    /\ th[t].pc = "done"
    /\ ~(sdc.pc = "call" /\ sdc.t = t)
    /\ th' = [th EXCEPT ![t] = Idle]
    /\ wire' = [wire EXCEPT ![t] = NoWire]
    /\ sdc' = IF sdc.t = t THEN NoSdc ELSE sdc
    /\ UNCHANGED <<accHeader, conHeader, mu, exists, version, token, active, slots, dev, ioc>>

Next ==
    \/ \E t \in active : NewClientWithArgs(t)
    \/ \E t \in active : NewClientReturn(t)
    \/ \E t \in active : UpdateHeadersLock(t)
    \/ \E t \in active : UpdateHeadersSuffix(t)
    \/ \E t \in active : UpdateHeadersCopy(t)
    \/ \E t \in active : CallDispatcher(t)
    \/ \E t \in active : ReadAccHeader(t)
    \/ \E t \in active : ReadConHeader(t)
    \/ \E t \in active : JSONFirstSend(t)
    \/ \E t \in active : StringFirstSend(t)
    \/ \E t \in active : AuthorizedSend(t)
    \/ \E t \in active : CallAuthenticate(t)
    \/ \E t \in active : AuthenticateClear(t)
    \/ \E t \in active : AuthenticateLogin(t)
    \/ \E t \in active : AuthenticateVersionCheck(t)
    \/ \E t \in active : UpdateVersion(t)
    \/ \E t \in active : AuthenticateReturn(t)
    \/ \E t \in active : JSONRetrySend(t)
    \/ \E t \in active : StringRetrySend(t)
    \/ \E t \in active : Return(t)

\* One caller at a time.
Spec == Init /\ [][Next]_vars

\* One caller at a time, and a call that can take a step takes it.
FairSpec == Spec /\ WF_vars(Next)

\* Two callers share the clients and the package's headers.
InitConcurrent ==
    /\ accHeader = <<>>
    /\ conHeader = <<>>
    /\ mu = "free"
    /\ exists = [c \in Clients |-> FALSE]
    /\ version = [c \in Clients |-> <<>>]
    /\ token = [c \in Clients |-> <<>>]
    /\ th = [t \in Callers |-> Idle]
    /\ wire = [t \in Callers |-> NoWire]
    /\ active = Callers
    /\ slots = {"c1"}
    /\ dev = DevIdle
    /\ sdc = NoSdc
    /\ ioc = NoIoc

ConcurrentSpec == InitConcurrent /\ [][Next]_vars

----------------------------------------------------------------------------
(* Properties of one dispatcher call, read when the call has returned *)

Retrying == {"json", "string"}

Returned(t) == th[t].pc = "done" /\ th[t].op \in Retrying

\* The call went through 401, an Authenticate that returned nil, and a re-send.
Retried(t) ==
    /\ Returned(t)
    /\ th[t].r1.status = "401"
    /\ th[t].nAuth = 1
    /\ th[t].authErr = "nil"
    /\ th[t].nSend = 2

\* What a 2xx answer with body b gives the caller of each dispatcher.
SuccessResult(op, b) == IF op = "string" THEN extractString(b) ELSE b

\* The call left the client's token and version and the headers as it found them.
Untouched(t) == Snap(th[t].c) = th[t].snap

\* C1: a getJSONWithRetry or getStringWithRetry call whose first send is
\* answered 401, whose Authenticate returns no error and whose re-sent request
\* is answered 2xx with a readable body returns that answer's result and no
\* error, and has called Authenticate exactly once.
C1_RetrySuccess ==
    \A t \in active :
        (Retried(t) /\ th[t].r2.status = "2xx" /\ th[t].r2.readable)
            => /\ th[t].err = "nil"
               /\ th[t].val = SuccessResult(th[t].op, th[t].r2.body)
               /\ th[t].nAuth = 1

C1_Witness ==
    \E t \in active :
        /\ Retried(t) /\ th[t].op = "string"
        /\ th[t].r2.status = "2xx" /\ th[t].r2.readable
        /\ th[t].r2.body = <<SP, Q, "b", Q, SP>>
        /\ th[t].val = <<"b">>
        /\ th[t].err = "nil"

\* C2: a call answered 401, re-authenticated, and answered 401 again returns an
\* error, and the request was sent twice and no more.
C2_SecondUnauthorized ==
    \A t \in active :
        (Retried(t) /\ th[t].r2.status = "401")
            => th[t].err # "nil" /\ th[t].nSend = 2

\* C3: a call sends its request at most twice and calls Authenticate at most
\* once, the second send follows a 401 on the first, and the call returns.
C3_Bounded ==
    /\ [](\A t \in Callers :
            th[t].op \in Retrying =>
                /\ th[t].nSend <= 2
                /\ th[t].nAuth <= 1
                /\ (th[t].nSend = 2 => th[t].r1.status = "401"))
    /\ \A t \in Callers :
            (th[t].op \in Retrying /\ th[t].pc # "done") ~> (th[t].pc = "done")

C3_Witness ==
    \E t \in active :
        /\ Returned(t) /\ th[t].op = "json"
        /\ th[t].nSend = 2 /\ th[t].nAuth = 1
        /\ th[t].r2.status = "other"
        /\ th[t].err = "apiOther"

\* The login exchange of the call's Authenticate gave no token.
NoTokenObtained(r) ==
    \/ r.status \in {"transport", "401", "other"}
    \/ r.status = "2xx" /\ ~r.readable

\* C4: when the Authenticate that follows a 401 obtains no token, the call
\* returns an authentication error and the request is not sent again.
C4_FailedReauthStops ==
    \A t \in active :
        (Returned(t) /\ th[t].nAuth = 1 /\ NoTokenObtained(th[t].login))
            => th[t].err = "authErr" /\ th[t].nSend = 1

\* C5: when Authenticate has returned an error, the client's token is empty.
C5_ErrorClearsToken ==
    \A t \in active :
        (th[t].pc = "done" /\ th[t].nAuth = 1 /\ th[t].authErr \notin {"none", "nil"})
            => token[th[t].c] = <<>>

\* C6: a resource request on the wire carries a token that is not empty.
C6_TokenOnWire ==
    \A t \in active : wire[t].n > 0 => wire[t].token # <<>>

\* The version suffix of a header value: what follows "application/json".
Suffix(h) == IF h = <<>> THEN <<>> ELSE Tail(h)

\* C7: the Accept and the Content-Type of a request on the wire have the same
\* version suffix.
C7_NoTornHeaders ==
    \A t \in active : wire[t].n > 0 => Suffix(wire[t].acc) = Suffix(wire[t].con)

\* C8: a call whose first send fails in the transport returns that error, has
\* not called Authenticate, has sent once, and has left token, version and
\* headers as they were.
C8_TransportFailure ==
    \A t \in active :
        (Returned(t) /\ th[t].r1.status = "transport")
            => /\ th[t].err = "transport"
               /\ th[t].nAuth = 0
               /\ th[t].nSend = 1
               /\ Untouched(t)

C8_Witness ==
    \E t \in active :
        /\ Returned(t) /\ th[t].op = "json"
        /\ th[t].r1.status = "transport"
        /\ th[t].err = "transport"
        /\ token[th[t].c] # <<>>
        /\ version[th[t].c] # <<>>

\* C9: a call answered with a non-2xx status other than 401 returns the error
\* parsed from that answer, has not called Authenticate, has sent once, and has
\* left token, version and headers as they were.
C9_OtherStatus ==
    \A t \in active :
        (Returned(t) /\ th[t].r1.status = "other")
            => /\ th[t].err = ParseJSONError(th[t].r1)
               /\ th[t].nAuth = 0
               /\ th[t].nSend = 1
               /\ Untouched(t)

C9_Witness ==
    \E t \in active :
        /\ Returned(t) /\ th[t].op = "json"
        /\ th[t].r1.status = "other" /\ th[t].r1.readable
        /\ th[t].err = "apiOther"
        /\ token[th[t].c] # <<>>

\* C10: a getStringWithRetry call whose re-sent request is answered with a
\* non-2xx status returns an error.
C10_FailedRetryIsError ==
    \A t \in active :
        (Retried(t) /\ th[t].op = "string" /\ th[t].r2.status \in {"401", "other"})
            => th[t].err # "nil"

----------------------------------------------------------------------------
(* Headers and version *)

\* The call's Authenticate asked the server for its version and got one.
VersionNegotiated(t) == th[t].vresp.status = "2xx" /\ th[t].vresp.readable

\* "application/json;version=" followed by v, or "application/json" alone.
HeaderFor(v) ==
    IF v = <<>> THEN <<"application/json">>
    ELSE <<"application/json", ";version=">> \o v

\* C11: when the re-authentication of a call negotiated the version (it was
\* unset when the call began), the re-sent request carries the Accept and
\* Content-Type of the new version.
C11_RetryHeadersRebuilt ==
    \A t \in active :
        (/\ wire[t].n = 2
         /\ th[t].snap.version = <<>>
         /\ VersionNegotiated(t)
         /\ version[th[t].c] # <<>>)
            => /\ wire[t].acc = HeaderFor(version[th[t].c])
               /\ wire[t].con = HeaderFor(version[th[t].c])

\* The leading major.minor of v with every digit of both kept, or v itself
\* when v does not begin with digits, a dot and a digit.
MajorMinor(v) ==
    LET major == DigitRun(v)
        minor == IF Len(v) >= major + 2
                 THEN DigitRun(SubSeq(v, major + 2, Len(v))) ELSE 0
    IN IF major > 0 /\ Len(v) >= major + 2 /\ v[major + 1] = "." /\ minor > 0
       THEN SubSeq(v, 1, major + 1 + minor)
       ELSE v

\* C12: the version a client holds after a successful version query is the
\* leading major.minor of the server's version string, all digits kept, or the
\* whole string when it has no such prefix.
C12_VersionDerivation ==
    \A t \in active :
        (th[t].pc # "idle" /\ VersionNegotiated(t))
            => version[th[t].c] = MajorMinor(extractString(th[t].vresp.body))

\* updateHeaders has just returned to caller t.
HeadersUpdated(t) ==
    \/ th[t].pc = "new_ret"
    \/ th[t].pc = "auth_ret" /\ VersionNegotiated(t)

\* C13: after updateHeaders(version), Accept and Content-Type are both
\* "application/json;version=" and the version, or "application/json" when the
\* version is empty.
C13_HeadersAfterUpdate ==
    \A t \in active :
        HeadersUpdated(t)
            => /\ accHeader = HeaderFor(version[th[t].c])
               /\ conHeader = HeaderFor(version[th[t].c])

C13_Witness ==
    \E t \in active :
        /\ th[t].pc = "new_ret"
        /\ version[th[t].c] = <<"3", ".", "5">>
        /\ accHeader = <<"application/json", ";version=", "3", ".", "5">>
        /\ conHeader = accHeader

\* C20: when Authenticate has returned nil, the client's token is the string
\* extracted from the login response of that call, and is not empty.
C20_SuccessStoresToken ==
    \A t \in active :
        (th[t].pc = "done" /\ th[t].op = "authenticate" /\ th[t].err = "nil")
            => /\ th[t].login.status = "2xx" /\ th[t].login.readable
               /\ token[th[t].c] = extractString(th[t].login.body)
               /\ token[th[t].c] # <<>>

----------------------------------------------------------------------------
(* Callers sharing a client *)

\* C19: no request goes out while another caller's re-authentication of the
\* same client has cleared the client's token and not yet stored the new one.
C19_NoSendDuringReauth ==
    \A t \in active : wire[t].n > 0 => ~wire[t].racing

----------------------------------------------------------------------------
(* The SDC device channel: codec *)

HexDigits == <<"0", "1", "2", "3", "4", "5", "6", "7", "8", "9",
               "a", "b", "c", "d", "e", "f">>

UpperDigits == <<"0", "1", "2", "3", "4", "5", "6", "7", "8", "9",
                 "A", "B", "C", "D", "E", "F">>

DigitValue(ch) == CHOOSE n \in 0..15 : HexDigits[n + 1] = ch

\* hex.EncodeToString
RECURSIVE HexEncode(_)
HexEncode(bytes) ==
    IF bytes = <<>> THEN <<>>
    ELSE <<HexDigits[(Head(bytes) \div 16) + 1], HexDigits[(Head(bytes) % 16) + 1]>>
         \o HexEncode(Tail(bytes))

\* strconv.ParseInt(s, 16, 64) on hexadecimal digits
RECURSIVE ParseHex(_)
ParseHex(s) ==
    IF s = <<>> THEN 0
    ELSE 16 * ParseHex(SubSeq(s, 1, Len(s) - 1)) + DigitValue(s[Len(s)])

\* fmt's %8.8x: at least eight hexadecimal digits, zero padded
RECURSIVE HexPad(_, _)
HexPad(n, width) ==
    IF width = 0 /\ n = 0 THEN <<>>
    ELSE HexPad(n \div 16, IF width > 0 THEN width - 1 ELSE 0)
         \o <<HexDigits[(n % 16) + 1]>>

\* strconv.FormatInt(n, 10)
RECURSIVE Decimal(_)
Decimal(n) ==
    IF n < 0 THEN <<"-">> \o Decimal(0 - n)
    ELSE IF n < 10 THEN <<HexDigits[n + 1]>>
    ELSE Decimal(n \div 10) \o <<HexDigits[(n % 10) + 1]>>

\* strings.ToUpper on hexadecimal digits and dashes
ToUpper(s) ==
    [i \in 1..Len(s) |->
        IF s[i] \in {"a", "b", "c", "d", "e", "f"}
        THEN UpperDigits[DigitValue(s[i]) + 1] ELSE s[i]]

\* uuid.Parse of 32 hexadecimal digits: the sixteen bytes they encode.
uuidParse(g) ==
    [i \in 1..(Len(g) \div 2) |-> ParseHex(SubSeq(g, 2 * i - 1, 2 * i))]

\* UUID.String: the canonical 8-4-4-4-12 form in lower case.
uuidString(u) ==
    LET h == HexEncode(u)
    IN SubSeq(h, 1, 8) \o <<"-">> \o SubSeq(h, 9, 12) \o <<"-">> \o SubSeq(h, 13, 16)
       \o <<"-">> \o SubSeq(h, 17, 20) \o <<"-">> \o SubSeq(h, 21, 32)

\* Lines 78 and 187: byte 0 of the rc field, through its two hex digits.
ReturnCode(rc) == ParseHex(HexEncode(SubSeq(rc, 1, 1)))

\* A variant of the test of lines 79 and 188 that takes every non-zero code.
RcIsSuccess_NonZero(rc) == rc # 0

\* Lines 79 and 188.
RcIsSuccess(rc) == rc = RcSuccess

\* DrvCfgQueryGUID, lines 74-86, on the buffer the ioctl left.
QueryGUIDResult(buf) ==
    IF buf.errno THEN [err |-> "ioctl", isNil |-> FALSE, val |-> <<>>]
    ELSE IF ~RcIsSuccess(ReturnCode(buf.rc))
    THEN [err |-> "rc", isNil |-> FALSE, val |-> <<>>]
    ELSE [err |-> "nil", isNil |-> FALSE,
          val |-> ToUpper(uuidString(uuidParse(HexEncode(buf.uuid))))]

\* The record the driver wrote at index i (from 0) of the mdms array.
Mdm(buf, i) ==
    [mdmIDH |-> buf.seed, mdmIDL |-> i + 1, sdcIDH |-> 255 - i, sdcIDL |-> buf.seed + i]

\* Lines 193-200: one ConfiguredCluster.
Cluster(m) ==
    [SystemID |-> HexPad(m.mdmIDH, 8) \o HexPad(m.mdmIDL, 8),
     SdcID |-> HexPad(m.sdcIDH, 8) \o HexPad(m.sdcIDL, 8)]

\* Lines 192-204: the loop over numMdms records; indexing the array of
\* MaxMdms records at or beyond MaxMdms is a run-time panic.
RECURSIVE DecodeClusters(_, _, _)
DecodeClusters(buf, i, clusters) ==
    IF ~(i < buf.numMdms) THEN [err |-> "nil", isNil |-> FALSE, val |-> clusters]
    ELSE IF ~(i < MaxMdms) THEN [err |-> "panic", isNil |-> TRUE, val |-> <<>>]
    ELSE DecodeClusters(buf, i + 1, Append(clusters, Cluster(Mdm(buf, i))))

\* DrvCfgQuerySystems, lines 183-204, on the buffer the ioctl left.
QuerySystemsResult(buf) ==
    IF buf.errno THEN [err |-> "ioctl", isNil |-> TRUE, val |-> <<>>]
    ELSE IF ~RcIsSuccess(ReturnCode(buf.rc))
    THEN [err |-> "rc", isNil |-> TRUE, val |-> <<>>]
    ELSE DecodeClusters(buf, 0, <<>>)

\* DrvCfgQueryRescan, lines 106-111, on the integer the ioctl left.
QueryRescanResult(buf) ==
    IF buf.errno THEN [err |-> "ioctl", isNil |-> FALSE, val |-> <<>>]
    ELSE [err |-> "nil", isNil |-> FALSE, val |-> Decimal(buf.scan)]

\* A variant of lines 155-162 with the two identifiers exchanged.
MockClusters_Swapped == <<[SystemID |-> mockGUID, SdcID |-> mockSystem]>>

\* Lines 155-162: the cluster list of mock mode.
MockClusters == <<[SystemID |-> mockSystem, SdcID |-> mockGUID]>>

(* What the driver can leave behind *)

RcFields == {<<b0, b1, 0, 0, 0, 0, 0, 0>> : b0 \in {0, RcSuccess, 66, 255}, b1 \in {0, RcSuccess}}

Uuids == {[i \in 1..16 |-> 0],
          <<158, 86, 103, 47, 47, 75, 74, 66, 191, 244, 136, 182, 132, 111, 191, 218>>}

IoctlFailed == [NoBuffer EXCEPT !.errno = TRUE]

GuidBuffers ==
    {IoctlFailed} \cup {[NoBuffer EXCEPT !.rc = rc, !.uuid = u] : rc \in RcFields, u \in Uuids}

MdmBuffers ==
    {IoctlFailed}
    \cup {[NoBuffer EXCEPT !.rc = rc, !.numMdms = n, !.seed = s] :
            rc \in RcFields, n \in {0, 1, 2, MaxMdms, MaxMdms + 1}, s \in {0, 26}}

RescanBuffers ==
    {IoctlFailed} \cup {[NoBuffer EXCEPT !.scan = v] : v \in {0, 7, RcSuccess}}

----------------------------------------------------------------------------
(* The SDC device channel: calls *)

sessionBase ==
    <<accHeader, conHeader, mu, exists, version, token, th, wire, active, slots, sdc>>

sessionVars == <<sessionBase, ioc>>

\* The environment: SCINIMockMode is set or cleared, the SDC device appears
\* or disappears, between calls.
DeviceEnvironment ==
    /\ dev.pc = "idle"
    /\ \E m \in BOOLEAN, p \in BOOLEAN :
          /\ <<m, p>> # <<dev.mock, dev.present>>
          /\ dev' = [dev EXCEPT !.mock = m, !.present = p]
    /\ UNCHANGED sessionVars

\* os.Open(SDCDevice), lines 59-62, 91-94 and 165-168.
Open(op, why, nilResult) ==
    IF dev.present
    THEN [dev EXCEPT !.pc = "ioctl", !.op = op, !.open = @ + 1, !.opens = @ + 1]
    ELSE [dev EXCEPT !.pc = "done", !.op = op, !.err = why, !.isNil = nilResult]

\* DrvCfgQueryGUID, lines 55-62.
DrvCfgQueryGUID ==
    /\ dev.pc = "idle"
    /\ dev' = IF dev.mock
              THEN [dev EXCEPT !.pc = "done", !.op = "guid", !.err = "nil", !.val = mockGUID]
              ELSE Open("guid", "open", FALSE)
    /\ UNCHANGED sessionVars

\* DrvCfgQuerySystems, lines 151-168.
DrvCfgQuerySystems ==
    /\ dev.pc = "idle"
    /\ dev' = IF dev.mock
              THEN [dev EXCEPT !.pc = "done", !.op = "systems", !.err = "nil",
                               !.clusters = MockClusters]
              ELSE Open("systems", "open", TRUE)
    /\ UNCHANGED sessionVars

\* DrvCfgQueryRescan, lines 89-94.
DrvCfgQueryRescan ==
    /\ dev.pc = "idle"
    /\ dev' = Open("rescan", "not installed", FALSE)
    /\ UNCHANGED sessionVars

\* DrvCfgQueryGUID, lines 68-86: the ioctl and the decoding of its buffer.
QueryGUIDIoctl ==
    /\ dev.pc = "ioctl" /\ dev.op = "guid"
    /\ \E buf \in GuidBuffers :
          LET r == QueryGUIDResult(buf)
          IN dev' = [dev EXCEPT !.pc = "closing", !.buf = buf, !.err = r.err,
                                !.isNil = r.isNil, !.val = r.val]
    /\ UNCHANGED sessionVars

\* DrvCfgQuerySystems, lines 174-204.
QuerySystemsIoctl ==
    /\ dev.pc = "ioctl" /\ dev.op = "systems"
    /\ \E buf \in MdmBuffers :
          LET r == QuerySystemsResult(buf)
          IN dev' = [dev EXCEPT !.pc = "closing", !.buf = buf, !.err = r.err,
                                !.isNil = r.isNil, !.clusters = r.val]
    /\ UNCHANGED sessionVars

\* DrvCfgQueryRescan, lines 100-111.
QueryRescanIoctl ==
    /\ dev.pc = "ioctl" /\ dev.op = "rescan"
    /\ \E buf \in RescanBuffers :
          LET r == QueryRescanResult(buf)
          IN dev' = [dev EXCEPT !.pc = "closing", !.buf = buf, !.err = r.err,
                                !.isNil = r.isNil, !.val = r.val]
    /\ UNCHANGED sessionVars

\* A variant of the deferred function that closes only after a success.
CloseHandle_OnSuccessOnly(d) ==
    IF d.err = "nil" THEN [d EXCEPT !.open = @ - 1, !.closes = @ + 1] ELSE d

\* The deferred functions of lines 64-66, 96-98 and 170-172.
CloseHandle(d) == [d EXCEPT !.open = @ - 1, !.closes = @ + 1]

\* The deferred close runs when the function returns or panics; a panic
\* then ends the program.
DeferredClose ==
    /\ dev.pc = "closing"
    /\ dev' = [CloseHandle(dev) EXCEPT !.pc = IF dev.err = "panic" THEN "crashed" ELSE "done"]
    /\ UNCHANGED sessionVars

\* The caller takes the result; the next call can start.
DeviceReturn ==
    /\ dev.pc = "done"
    /\ dev' = [DevIdle EXCEPT !.mock = dev.mock, !.present = dev.present, !.open = dev.open]
    /\ UNCHANGED sessionVars

DeviceNext ==
    \/ DeviceEnvironment
    \/ DrvCfgQueryGUID
    \/ DrvCfgQuerySystems
    \/ DrvCfgQueryRescan
    \/ QueryGUIDIoctl
    \/ QuerySystemsIoctl
    \/ QueryRescanIoctl
    \/ DeferredClose
    \/ DeviceReturn

DeviceSpec == Init /\ [][DeviceNext]_vars

----------------------------------------------------------------------------
(* Claims: the SDC device channel *)

\* The call in progress opened the device, its ioctl succeeded and left a
\* buffer, and the function has computed what it returns.
Answered(op) ==
    /\ dev.pc \in {"closing", "done"}
    /\ dev.op = op
    /\ dev.opens = 1
    /\ ~dev.buf.errno

\* C14: outside mock mode, when the ioctl of DrvCfgQueryGUID or
\* DrvCfgQuerySystems succeeds but byte 0 of the return-code field is not 65,
\* the call returns an error and neither a GUID nor a cluster list, whatever
\* the count, the records and the identifier bytes of the buffer are.
C14_BadReturnCode ==
    \A op \in {"guid", "systems"} :
        (Answered(op) /\ dev.buf.rc[1] # 65)
            => /\ dev.err = "rc"
               /\ dev.val = <<>>
               /\ dev.clusters = <<>>
               /\ (op = "systems" => dev.isNil)

\* A bad return code in front of a payload that looks well formed: a GUID's
\* bytes, or two records.
C14_Witness ==
    /\ dev.pc = "done"
    /\ dev.err = "rc"
    /\ \/ Answered("guid") /\ dev.buf.rc[1] = 66 /\ dev.buf.uuid[1] # 0
       \/ Answered("systems") /\ dev.buf.rc[1] = 66 /\ dev.buf.numMdms = 2

\* C15: when the ioctl of DrvCfgQueryRescan succeeds but the return code is not
\* the success sentinel, the call returns an error instead of a result string.
C15_RescanValidates ==
    (Answered("rescan") /\ dev.buf.scan # 65) => (dev.err # "nil" /\ dev.val = <<>>)

\* C16: when the cluster-list response has the success code and a count above
\* the capacity of 20 records, DrvCfgQuerySystems returns a typed error: it
\* neither panics nor returns a list.
C16_CountAboveCapacity ==
    (Answered("systems") /\ dev.buf.rc[1] = 65 /\ dev.buf.numMdms > 20)
        => (dev.err \notin {"nil", "panic"} /\ dev.clusters = <<>>)

\* C17: a call that opened the device closes the handle exactly once before
\* it returns, whatever the ioctl did, so no handle is open between calls;
\* a mock-mode call and a call whose open failed open no handle.
C17_HandleClosedOnce ==
    /\ dev.opens \in {0, 1}
    /\ dev.pc \in {"idle", "done", "crashed"} => (dev.open = 0 /\ dev.closes = dev.opens)
    /\ dev.pc \in {"ioctl", "closing"} => (dev.open = 1 /\ dev.opens = 1 /\ dev.closes = 0)
    /\ (dev.op \in {"guid", "systems"} /\ dev.mock) => dev.opens = 0
    /\ (dev.op # "none" /\ ~dev.present) => dev.opens = 0

\* An opened call that ended on a bad return code and has closed its handle.
C17_Witness ==
    /\ dev.pc = "done"
    /\ dev.err = "rc"
    /\ dev.opens = 1
    /\ dev.closes = 1
    /\ dev.open = 0

\* C18: in mock mode, whether or not the device exists, DrvCfgQueryGUID
\* returns 9E56672F-2F4B-4A42-BFF4-88B6846FBFDA and DrvCfgQuerySystems returns
\* one cluster with SystemID 000000000001 and that GUID as SdcID, both with
\* no error and without opening the device.
C18_MockMode ==
    LET guid == <<"9", "E", "5", "6", "6", "7", "2", "F", "-", "2", "F", "4", "B", "-",
                "4", "A", "4", "2", "-", "B", "F", "F", "4", "-", "8", "8", "B", "6",
                "8", "4", "6", "F", "B", "F", "D", "A">>
        system == <<"0", "0", "0", "0", "0", "0", "0", "0", "0", "0", "0", "1">>
    IN (dev.pc = "done" /\ dev.mock)
        => /\ dev.op = "guid" =>
                (dev.err = "nil" /\ dev.val = guid /\ dev.opens = 0)
           /\ dev.op = "systems" =>
                /\ dev.err = "nil"
                /\ ~dev.isNil
                /\ Len(dev.clusters) = 1
                /\ dev.clusters[1].SystemID = system
                /\ dev.clusters[1].SdcID = guid
                /\ dev.opens = 0

\* A mock-mode cluster query on a machine without the device.
C18_Witness ==
    /\ dev.pc = "done"
    /\ dev.mock
    /\ ~dev.present
    /\ dev.op = "systems"
    /\ Len(dev.clusters) = 1

----------------------------------------------------------------------------
(* Claims: the version of a client and the headers of the process *)

\* C21: Authenticate asks the version endpoint only when the client's version
\* is empty; a call of Authenticate on a client whose version is set, made
\* directly with any ConfigConnect or by a dispatcher after a 401, leaves the
\* client's version and the Accept and Content-Type headers as they were.
C21_VersionFrame ==
    \A t \in active :
        th[t].op \in {"authenticate", "json", "string"} =>
            /\ th[t].pc \in {"getver", "uh1", "uh2", "uh3"} => th[t].snap.version = <<>>
            /\ th[t].vresp # NoExchange => th[t].snap.version = <<>>
            /\ th[t].snap.version # <<>> =>
                  /\ version[th[t].c] = th[t].snap.version
                  /\ accHeader = th[t].snap.acc
                  /\ conHeader = th[t].snap.con

\* Authenticate has returned nil on a client whose version was negotiated as
\* 3.6, a version no ConfigConnect argument carries.
C21_Witness ==
    \E t \in active :
        /\ th[t].op = "authenticate"
        /\ th[t].pc = "done"
        /\ th[t].err = "nil"
        /\ th[t].snap.version = <<"3", ".", "6">>
        /\ version[th[t].c] = <<"3", ".", "6">>

\* C22: with several Clients in the process, the Accept and Content-Type of
\* the first send of a call on a Client carry the version suffix of that
\* Client's own version, whatever was done with the other Clients.
C22_HeadersOfOwnClient ==
    \A t \in active :
        wire[t].n = 1
            => /\ wire[t].acc = HeaderFor(version[th[t].c])
               /\ wire[t].con = HeaderFor(version[th[t].c])

----------------------------------------------------------------------------
(* The Sdc wrappers of System: GetSdcById and ChangeSdcName *)

\* A variant of lines 68-72 and 87-92 that hands the error on and returns no
\* wrapper with it.
SdcResult_Propagate(err) == [wrapper |-> err = "nil", err |-> err]

\* Lines 68-72 and 87-92: NewSdc(s.client, &sdc) and nil, in the branch of
\* err != nil and after it.
SdcResult(err) ==
    IF err # "nil" THEN [wrapper |-> TRUE, err |-> "nil"]
    ELSE [wrapper |-> TRUE, err |-> "nil"]

\* Lines 59-67 and 75-86: the wrapper enters getJSONWithRetry on its client.
SdcCall(t, fn) ==
    /\ th[t].pc = "idle"
    /\ sdc.pc = "none"
    /\ \E c \in Clients :
          /\ exists[c]
          /\ th' = Start(t, [pc |-> "rdAcc", op |-> "json"], c)
    /\ sdc' = [NoSdc EXCEPT !.fn = fn, !.t = t, !.pc = "call"]
    /\ UNCHANGED <<accHeader, conHeader, mu, exists, version, token, wire, active, slots, dev, ioc>>

\* GetSdcById, lines 59-67: GET api/instances/Sdc::id.
GetSdcById(t) == SdcCall(t, "GetSdcById")

\* ChangeSdcName, lines 75-86: POST .../action/setSdcName.
ChangeSdcName(t) == SdcCall(t, "ChangeSdcName")

\* Lines 68-72 and 87-92: getJSONWithRetry has returned; so does the wrapper.
SdcReturn(t) ==
    /\ sdc.pc = "call" /\ sdc.t = t
    /\ th[t].pc = "done"
    /\ sdc' = [sdc EXCEPT !.pc = "returned",
                          !.wrapper = SdcResult(th[t].err).wrapper,
                          !.err = SdcResult(th[t].err).err]
    /\ UNCHANGED <<accHeader, conHeader, mu, exists, version, token, th, wire, active, slots, dev, ioc>>

SdcNext ==
    \/ Next
    \/ \E t \in active : GetSdcById(t)
    \/ \E t \in active : ChangeSdcName(t)
    \/ \E t \in active : SdcReturn(t)

\* One caller at a time, using the dispatchers directly and through the wrappers.
SdcSpec == Init /\ [][SdcNext]_vars

\* C23: GetSdcById and ChangeSdcName return a wrapper and a nil error whatever
\* getJSONWithRetry returned: a transport failure, a non-2xx answer and a
\* failed re-authentication look to the caller like a success.
C23_ErrorSwallowed ==
    sdc.pc = "returned" => (sdc.wrapper /\ sdc.err = "nil")

\* ChangeSdcName has returned after getJSONWithRetry failed on a
\* re-authentication that did not succeed.
C23_Witness ==
    /\ sdc.pc = "returned"
    /\ sdc.fn = "ChangeSdcName"
    /\ th[sdc.t].err = "authErr"
    /\ sdc.err = "nil"

----------------------------------------------------------------------------
(* The ioctl op-codes.  A uintptr is the set of the positions of its one bits. *)

WordBits == 64

_IOCTLBase == 97

_IOCTLQueryGUID == 14

_IOCTLQueryMDM == 12

_IOCTLRescan == 10

\* The bits of a number below 2^31.
Bits(n) == {b \in 0..30 : (n \div (2 ^ b)) % 2 = 1}

\* The number whose bits are S, for S within the low 31 bits.
RECURSIVE Value(_)
Value(S) ==
    IF S = {} THEN 0
    ELSE LET b == CHOOSE x \in S : TRUE IN (2 ^ b) + Value(S \ {b})

\* x << k on a uintptr: the bits shifted out at the top are lost.
Shl(S, k) == {b + k : b \in S} \cap (0..(WordBits - 1))

\* A variant of line 220 that puts the class four bits up instead of eight.
_IOC_ClassShift4(dir, t, nr, size) ==
    Shl(Bits(dir), 30) \cup Shl(Bits(t), 4) \cup Bits(nr) \cup Shl(Bits(size), 16)

\* Line 220: (dir << 30) | (t << 8) | nr | (size << 16).
_IOC(dir, t, nr, size) ==
    Shl(Bits(dir), 30) \cup Shl(Bits(t), 8) \cup Bits(nr) \cup Shl(Bits(size), 16)

\* Line 216.
_IO(t, nr) == _IOC(0, t, nr, 0)

\* The command of each query: lines 68, 100 and 174.
QueryCommand ==
    [guid |-> _IOCTLQueryGUID, systems |-> _IOCTLQueryMDM, rescan |-> _IOCTLRescan]

\* Arguments given to _IOC: every direction, class bytes, commands around the
\* byte boundary, sizes up to the 14 bits of the size field.
Directions == 0..3

ClassBytes == {0, _IOCTLBase, 255}

Commands == {0, 1, _IOCTLRescan, _IOCTLQueryMDM, _IOCTLQueryGUID, 128, 255, 256}

Sizes == {0, 1, 8, 16383}

\* Lines 68, 100 and 174: opCode := _IO(_IOCTLBase, command).
QueryOpCode ==
    /\ \E q \in DOMAIN QueryCommand :
          ioc' = [fn |-> q, dir |-> 0, t |-> _IOCTLBase, nr |-> QueryCommand[q],
                  size |-> 0, code |-> _IO(_IOCTLBase, QueryCommand[q])]
    /\ UNCHANGED <<dev>>
    /\ UNCHANGED sessionBase

\* _IO on any class byte and command.
BuildIO ==
    /\ \E t \in ClassBytes, nr \in Commands :
          ioc' = [fn |-> "_IO", dir |-> 0, t |-> t, nr |-> nr, size |-> 0,
                  code |-> _IO(t, nr)]
    /\ UNCHANGED <<dev>>
    /\ UNCHANGED sessionBase

\* _IOC on any direction, class byte, command and size.
BuildIOC ==
    /\ \E dir \in Directions, t \in ClassBytes, nr \in Commands, size \in Sizes :
          ioc' = [fn |-> "_IOC", dir |-> dir, t |-> t, nr |-> nr, size |-> size,
                  code |-> _IOC(dir, t, nr, size)]
    /\ UNCHANGED <<dev>>
    /\ UNCHANGED sessionBase

OpCodeNext ==
    \/ QueryOpCode
    \/ BuildIO
    \/ BuildIOC

OpCodeSpec == Init /\ [][OpCodeNext]_vars

\* C24: the op-codes of the three queries have no bit in the size field
\* (bits 16-29) or the direction field (bits 30-31) and are 24846 (GUID),
\* 24844 (cluster list) and 24842 (rescan), three different values; with
\* dir = 0 and size = 0, the class and a command below 256 occupy separate
\* bits of the op-code and can both be read back from it.
C24_OpCodes ==
    /\ ioc.fn \in {"guid", "systems", "rescan"} =>
          /\ ioc.code \cap (16..63) = {}
          /\ ioc.fn = "guid" => Value(ioc.code) = 24846
          /\ ioc.fn = "systems" => Value(ioc.code) = 24844
          /\ ioc.fn = "rescan" => Value(ioc.code) = 24842
          /\ Value(ioc.code) = (97 * 256) + ioc.nr
    /\ \A p, q \in {"guid", "systems", "rescan"} :
          p # q => _IO(97, QueryCommand[p]) # _IO(97, QueryCommand[q])
    /\ (ioc.fn \in {"_IO", "_IOC"} /\ ioc.dir = 0 /\ ioc.size = 0 /\ ioc.nr < 256) =>
          /\ {b \in ioc.code : b < 8} = Bits(ioc.nr)
          /\ {b - 8 : b \in {x \in ioc.code : x >= 8}} = Bits(ioc.t)

\* The op-code of the GUID query has been built.
C24_Witness ==
    /\ ioc.fn = "guid"
    /\ ioc.t = 97
    /\ ioc.nr = 14
    /\ ioc.code # {}

====
